---- MODULE Spec2Model ----
(***************************************************************************)
(* A model of src/branch_predictor.py: the BranchPredictor orchestrator    *)
(* (global history register, per-tag statistics, lazily created table of   *)
(* perceptrons) and the three perceptron variants it can be built with.    *)
(*                                                                         *)
(* Numbers.  TruePerceptron works on small integers (eta is an integer     *)
(* here) and is modelled exactly.  The torch variants hold reals; they     *)
(* are kept in fixed point, One units to 1.0, chosen so that one SGD step  *)
(* (lr = 1e-3) and one mini-batch step (lr/bs per example) are whole       *)
(* numbers of units.  moving_accuracy is kept as an exact decimal, an      *)
(* integer part and the digits after the point, of any length.             *)
(* Floating-point rounding is not modelled.                                *)
(*                                                                         *)
(* Python values.  A tag is <<type, repr>>, so that None, the integer 0    *)
(* and the empty string are three different values with Python's truth     *)
(* values.  A prediction p is kept as the integer 2*p, so that the 0.5     *)
(* which TruePerceptron can return is representable.                       *)
(***************************************************************************)
EXTENDS Integers, Sequences, FiniteSets, TLC

\* ------------------------------------------------------------------ bounds
\* Largest history length n a BranchPredictor is constructed with.
MaxN == 2
\* Number of __call__ invocations explored per behaviour.
MaxCalls == 4
\* Number of invocations explored when a single tag is followed for long.
MaxLongCalls == 8
\* Longest feature vector of a perceptron that is fed on its own.
MaxSeparableN == 3
\* Number of invocations explored on the branch site of a BpLambdaPerceptron,
\* and how many of them at most are predicted right.
MaxLambdaCalls == 18
MaxAgreed == 1

\* ------------------------------------------------------- program constants
\* BpLambdaPerceptron.bs (mini-batch size).
bs == 16
\* 1 / lr of optim.SGD(..., lr=1e-3).
LrInverse == 1000
\* Decay of moving_accuracy, in tenths (0.9), and the credit of a hit (0.1).
DecayTenths == 9
HitTenths == 1

\* Fixed point of the torch variants: 1.0, 0.5 and one SGD step lr * 1.
One == LrInverse * bs
Half == One \div 2
LrStep == One \div LrInverse

VARIABLES
    status,              \* "ready" | "ctor_failed": outcome of BranchPredictor.__init__
    n,                   \* constructor argument n
    preceptron,          \* constructor argument preceptron (the variant's class name)
    argv,                \* constructor arguments *argv
    global_history,      \* self.global_history, index 1 is numpy index 0
    total,               \* self.total            (defaultdict(int))
    correct,             \* self.correct          (defaultdict(int))
    moving_accuracy,     \* self.moving_accuracy  (defaultdict(float))
    taken_history,       \* self.taken_history    (defaultdict(list))
    prediction_history,  \* self.prediction_history (defaultdict(list))
    perceptrons,         \* self.perceptrons      (defaultdict(lambda: preceptron(n, *argv)))
    constructed,         \* number of perceptron objects constructed so far
    learning_rounds,     \* number of learning_round() calls made so far
    reported,            \* outcome of get_accuracies() when it was the latest operation
    calls,               \* number of __call__ invocations so far
    observed,            \* conditions of the invocations that returned, oldest first
    last                 \* the latest invocation: arguments, outcome, what the predictor saw

vars == <<status, n, preceptron, argv, global_history, total, correct,
          moving_accuracy, taken_history, prediction_history, perceptrons,
          constructed, learning_rounds, reported, calls, observed, last>>

\* ------------------------------------------------------------ Python values
NoneTag == <<"NoneType", "None">>
Tags == {NoneTag, <<"int", "0">>, <<"str", "">>, <<"str", "a">>, <<"int", "1">>}

\* bool(tag), as evaluated by `if tag:`.
Truthy(tag) ==
    CASE tag[1] = "NoneType" -> FALSE
      [] tag[1] = "int" -> tag[2] # "0"
      [] tag[1] = "str" -> tag[2] # ""

\* int(condition) and `1 if condition else 0`.
IntOf(condition) == IF condition THEN 1 ELSE 0

\* defaultdict: d[k] of a missing key is the factory's value.
DictGet(d, k, default) == IF k \in DOMAIN d THEN d[k] ELSE default
DictSet(d, k, v) == [x \in DOMAIN d \cup {k} |-> IF x = k THEN v ELSE d[x]]
EmptyDict == [x \in {} |-> 0]

RECURSIVE Dot(_, _)
Dot(w, x) == IF Len(x) = 0 THEN 0 ELSE w[1] * x[1] + Dot(Tail(w), Tail(x))

Sign(v) == IF v > 0 THEN 1 ELSE IF v < 0 THEN -1 ELSE 0

Zeros(k) == [i \in 1..k |-> 0]

\* ------------------------------------------------------------ TruePerceptron
\* __init__(self, n, eta=1): args are the extra positional arguments.
TruePerceptron_init(n_, args) ==
    [n |-> n_,
     eta |-> IF Len(args) >= 1 THEN args[1] ELSE 1,
     weights |-> Zeros(n_ + 1)]

\* predict: np.dot(weights[:n], X) + weights[n].
TruePerceptron_predict(self, X) ==
    Dot(SubSeq(self.weights, 1, self.n), X) + self.weights[self.n + 1]

\* The value returned, (np.sign(pred) + 1) / 2, as the integer 2*p.
TruePerceptron_decision(pred) == Sign(pred) + 1

\* Mutant: the weights are never updated.
TruePerceptron_no_update(self, X, y) ==
    [self |-> self,
     p |-> TruePerceptron_decision(
               Sign(TruePerceptron_predict(self, [i \in 1..Len(X) |-> 2 * X[i] - 1])))]

\* Mutant: the perceptron rule is applied whether or not the sign was right.
TruePerceptron_always_update(self, X, y) ==
    [self |-> [self EXCEPT !.weights =
                  [i \in 1..(self.n + 1) |->
                      IF i <= self.n
                      THEN self.weights[i] + self.eta * (2 * y - 1) * (2 * X[i] - 1)
                      ELSE self.weights[i] + self.eta * (2 * y - 1)]],
     p |-> TruePerceptron_decision(
               Sign(TruePerceptron_predict(self, [i \in 1..Len(X) |-> 2 * X[i] - 1])))]

\* predict_and_update: the new object state and the value returned.
TruePerceptron_predict_and_update(self, X, y) ==
    LET x_scale == [i \in 1..Len(X) |-> 2 * X[i] - 1]
        y_scale == 2 * y - 1
        pred == Sign(TruePerceptron_predict(self, x_scale))
        updated ==
            [self EXCEPT !.weights =
                [i \in 1..(self.n + 1) |->
                    IF i <= self.n
                    THEN self.weights[i] + self.eta * y_scale * x_scale[i]
                    ELSE self.weights[i] + self.eta * y_scale]]
    IN  [self |-> IF pred # y_scale THEN updated ELSE self,
         p |-> TruePerceptron_decision(pred)]

\* ------------------------------------------- ClassicalPerceptron (nn.Linear)
\* The initial parameters nn.Linear(n, 1) may draw: a sample of its uniform
\* initialisation around the decision threshold 0.5 (with fan-in 0 the bias
\* bound is 0).
ClassicalPerceptron_init(n_) ==
    IF n_ = 0
    THEN {[weight |-> <<>>, bias |-> 0]}
    ELSE {[weight |-> Zeros(n_), bias |-> b] : b \in {Half, Half + LrStep}}

\* forward: fc1(x) = weight . x + bias, in units.
ClassicalPerceptron_forward(net, x) == Dot(net.weight, x) + net.bias

\* One optimizer.step() of SGD with gradient grad * x on the weights and
\* grad on the bias; grad is in units of lr (LrStep / bs for a batch mean).
SGD_step(net, x, grad, unit) ==
    [weight |-> [i \in 1..Len(net.weight) |-> net.weight[i] - unit * grad * x[i]],
     bias |-> net.bias - unit * grad]

\* -------------------------------------------------------------- BpPerceptron
BpPerceptron_init(net0) == [net |-> net0]

\* predict_and_update: loss = |pred - y|, one SGD step, returns pred > 0.5.
BpPerceptron_predict_and_update(self, X, y) ==
    LET pred == ClassicalPerceptron_forward(self.net, X)
        grad == Sign(pred - y * One)
    IN  [self |-> [self EXCEPT !.net = SGD_step(self.net, X, grad, LrStep)],
         p |-> IF pred > Half THEN 2 ELSE 0]

\* -------------------------------------------------------- BpLambdaPerceptron
BpLambdaPerceptron_init(net0, args) ==
    [net |-> net0,
     example_history_x |-> <<>>,
     example_history_y |-> <<>>,
     lamb |-> args[1]]

\* Index (from 1) of the first stored example equal to X, 0 when there is none.
FirstIndex(xs, X) ==
    IF \E i \in 1..Len(xs) : xs[i] = X
    THEN CHOOSE i \in 1..Len(xs) : xs[i] = X /\ \A j \in 1..(i - 1) : xs[j] # X
    ELSE 0

RECURSIVE SumOver(_, _)
SumOver(f, S) ==
    IF S = {} THEN 0
    ELSE LET i == CHOOSE j \in S : TRUE IN f[i] + SumOver(f, S \ {i})

\* learning_round: the gradient of bs * mean |preds - batch_y| over the drawn
\* examples rand_idxs (so one optimizer.step() moves each parameter by
\* LrStep / bs times it).
BpLambdaPerceptron_batch_grad(self, rand_idxs) ==
    LET xs == self.example_history_x
        ys == self.example_history_y
        g == [i \in 1..Len(xs) |->
                Sign(ClassicalPerceptron_forward(self.net, xs[i]) - ys[i] * One)]
    IN  [weight |-> [k \in 1..Len(self.net.weight) |->
                        SumOver([i \in 1..Len(xs) |-> g[i] * xs[i][k]], rand_idxs)],
         bias |-> SumOver(g, rand_idxs)]

\* Mutant: the trigger counts in batches of bs, not of bs + 1.
LearningRoundDue_early(self) == (Len(self.example_history_x) + 1) % bs = 0

\* Mutant: the learning round waits until bs + 1 examples are stored.
LearningRoundDue_late(self) ==
    /\ Len(self.example_history_x) > 0
    /\ Len(self.example_history_x) % (bs + 1) = 0

\* The (len + 1) % (bs + 1) == 0 trigger of a learning round.
LearningRoundDue(self) == (Len(self.example_history_x) + 1) % (bs + 1) = 0

\* np.random.choice(np.arange(len), size=bs, replace=False): the index sets
\* it may draw; with fewer than bs examples it raises ValueError.
RandIdxs(self) ==
    {S \in SUBSET (1..Len(self.example_history_x)) : Cardinality(S) = bs}

\* lambda_term of predict_and_update: lamb * sum(X**2) * (2 * y' - 1) for the
\* label y' stored with the first example equal to X (at), 0 without one.
LambdaTerm(self, X, at) ==
    IF at # 0
    THEN self.lamb * One * Dot(X, X) * (2 * self.example_history_y[at] - 1)
    ELSE 0

\* The parameters after learning_round's optimizer.step() and the step that
\* follows it in predict_and_update.  The per-example backward() adds to the
\* gradient the learning round left in .grad, so the batch gradient bg is
\* applied twice, then the example's own gradient grad once.
StepsAfterLearningRound(net, bg, X, grad) ==
    SGD_step([weight |-> [k \in 1..Len(net.weight) |->
                            net.weight[k] - 2 * (LrStep \div bs) * bg.weight[k]],
              bias |-> net.bias - 2 * (LrStep \div bs) * bg.bias],
             X, grad, LrStep)

\* Mutant: every example is stored, mispredicted or not.
BpLambdaPerceptron_finish_store_all(self, X, y, net2, decision, due) ==
    [self |-> [self EXCEPT
                  !.net = net2,
                  !.example_history_x = Append(@, X),
                  !.example_history_y = Append(@, y)],
     p |-> IF decision THEN 2 ELSE 0,
     learning_round |-> due]

\* The end of predict_and_update (lines 94-98) for the score pred, the
\* margin-adjusted decision and the trained parameters net2.
BpLambdaPerceptron_finish(self, X, y, net2, decision, due) ==
    [self |-> [self EXCEPT
                  !.net = net2,
                  !.example_history_x = IF IntOf(decision) # y THEN Append(@, X) ELSE @,
                  !.example_history_y = IF IntOf(decision) # y THEN Append(@, y) ELSE @],
     p |-> IF decision THEN 2 ELSE 0,
     learning_round |-> due]

BpLambdaPerceptron_train(self, X, y, rand_idxs, pred, lambda_term) ==
    BpLambdaPerceptron_finish(
        self, X, y,
        IF LearningRoundDue(self)
        THEN StepsAfterLearningRound(
                 self.net, BpLambdaPerceptron_batch_grad(self, rand_idxs),
                 X, Sign(pred - y * One))
        ELSE SGD_step(self.net, X, Sign(pred - y * One), LrStep),
        (pred + lambda_term) > Half,
        LearningRoundDue(self))

\* predict_and_update with the indices rand_idxs drawn if a learning round
\* is due.
BpLambdaPerceptron_predict_and_update(self, X, y, rand_idxs) ==
    BpLambdaPerceptron_train(
        self, X, y, rand_idxs,
        ClassicalPerceptron_forward(self.net, X),
        LambdaTerm(self, X, FirstIndex(self.example_history_x, X)))

\* ----------------------------------------------------------- BranchPredictor
Variants == {"BpPerceptron", "BpLambdaPerceptron", "TruePerceptron"}
\* The *argv a BranchPredictor is constructed with: none, or one number
\* (eta of TruePerceptron, lamb of BpLambdaPerceptron).
ArgvSet == {<<>>, <<2>>}

\* __init__: np.zeros((n,)) raises ValueError for a negative n and builds an
\* empty register for n = 0; nothing else looks at n.
BranchPredictor_init(n_) ==
    [status |-> IF n_ < 0 THEN "ctor_failed" ELSE "ready",
     global_history |-> IF n_ < 0 THEN <<>> ELSE Zeros(n_),
     total |-> EmptyDict,
     correct |-> EmptyDict,
     moving_accuracy |-> EmptyDict,
     taken_history |-> EmptyDict,
     prediction_history |-> EmptyDict,
     perceptrons |-> EmptyDict]

\* Whether preceptron(n, *argv) matches the class's __init__ signature
\* (otherwise the call raises TypeError).
CtorAccepts(cls, args) ==
    CASE cls = "BpPerceptron" -> Len(args) = 0
      [] cls = "BpLambdaPerceptron" -> Len(args) = 1
      [] cls = "TruePerceptron" -> Len(args) <= 1

\* The objects preceptron(n, *argv) may return.
NewPerceptrons(cls, n_, args) ==
    CASE cls = "BpPerceptron" ->
            {BpPerceptron_init(net0) : net0 \in ClassicalPerceptron_init(n_)}
      [] cls = "BpLambdaPerceptron" ->
            {BpLambdaPerceptron_init(net0, args) : net0 \in ClassicalPerceptron_init(n_)}
      [] cls = "TruePerceptron" -> {TruePerceptron_init(n_, args)}

\* The fields of self as one record, so that the statements of __call__ can
\* be applied one after the other.
Self ==
    [global_history |-> global_history, total |-> total, correct |-> correct,
     moving_accuracy |-> moving_accuracy, taken_history |-> taken_history,
     prediction_history |-> prediction_history, perceptrons |-> perceptrons,
     constructed |-> constructed, learning_rounds |-> learning_rounds]

\* Mutant: the tagged branch runs whether or not a tag was given.
AlwaysTagged(tag) == TRUE

\* `if tag:` of __call__.
TakesTaggedBranch(tag) == Truthy(tag)

\* Mutant: invocations are not counted.
CountCall_never(s, tag) == s

\* Mutant: the first invocation for a tag only creates the counter.
CountCall_skip_first(s, tag) ==
    [s EXCEPT !.total = DictSet(@, tag, IF tag \in DOMAIN @ THEN @[tag] + 1 ELSE 0)]

\* self.total[tag] += 1.
CountCall(s, tag) ==
    [s EXCEPT !.total = DictSet(@, tag, DictGet(@, tag, 0) + 1)]

\* Mutant: a plain dict filled on every lookup, so each invocation gets a
\* newly constructed perceptron.
Lookup_always_fresh(s, tag, fresh) ==
    IF ~CtorAccepts(preceptron, argv)
    THEN [s |-> s, exc |-> "TypeError"]
    ELSE [s |-> [s EXCEPT
                    !.perceptrons =
                        DictSet(@, tag,
                                [id |-> s.constructed + 1,
                                 obj |-> CHOOSE o \in NewPerceptrons(preceptron, n, argv) : TRUE]),
                    !.constructed = @ + 1],
          exc |-> "none"]

\* self.perceptrons[tag]: the entry of the table, constructed by the default
\* factory (as the object fresh) when the key is missing.
Lookup(s, tag, fresh) ==
    IF tag \in DOMAIN s.perceptrons
    THEN [s |-> s, exc |-> "none"]
    ELSE IF ~CtorAccepts(preceptron, argv)
    THEN [s |-> s, exc |-> "TypeError"]
    ELSE [s |-> [s EXCEPT
                    !.perceptrons =
                        DictSet(@, tag, [id |-> s.constructed + 1, obj |-> fresh]),
                    !.constructed = @ + 1],
          exc |-> "none"]

\* Mutant: the result of np.roll is dropped, index 0 is overwritten in place.
update_history_no_roll(h, condition) ==
    [i \in 1..Len(h) |-> IF i = 1 THEN IntOf(condition) ELSE h[i]]

\* update_history on a register of length >= 1: np.roll(h, 1), then h[0] = 0/1.
update_history(h, condition) ==
    [i \in 1..Len(h) |-> IF i = 1 THEN IntOf(condition) ELSE h[i - 1]]

\* Mutant: the register is updated before the predictor is asked.
FeatureArg_after_push(s, condition) == update_history(s.global_history, condition)

\* The feature vector handed to predict_and_update: self.global_history.
FeatureArg(s, condition) == s.global_history

\* predict_and_update of the configured class.
predict_and_update(cls, obj, X, y, rand_idxs) ==
    CASE cls = "BpPerceptron" -> BpPerceptron_predict_and_update(obj, X, y)
      [] cls = "BpLambdaPerceptron" ->
            BpLambdaPerceptron_predict_and_update(obj, X, y, rand_idxs)
      [] cls = "TruePerceptron" -> TruePerceptron_predict_and_update(obj, X, y)

\* A learning round is due and np.random.choice cannot draw bs examples.
ChoiceRaises(cls, obj) ==
    /\ cls = "BpLambdaPerceptron"
    /\ LearningRoundDue(obj)
    /\ Len(obj.example_history_x) < bs

\* Exact decimals [int, frac]: int + 0.frac[1]frac[2]...  The digits
\* D[lo..hi] times m plus the carry cin from the right, as the digits of the
\* product and the carry out to the left.  The right half is multiplied
\* first, its carry goes into the left half (halving keeps the recursion flat).
RECURSIVE MulDigits(_, _, _, _, _)
MulDigitsJoin(L, R) == [digits |-> L.digits \o R.digits, carry |-> L.carry]
MulDigitsLeft(D, lo, mid, m, R) ==
    IF R.carry = 0
    THEN MulDigitsJoin(MulDigits(D, lo, mid, m, 0), R)
    ELSE MulDigitsJoin(MulDigits(D, lo, mid, m, R.carry), R)
MulDigits(D, lo, hi, m, cin) ==
    IF lo > hi THEN [digits |-> <<>>, carry |-> cin]
    ELSE IF lo = hi
    THEN [digits |-> <<(m * D[lo] + cin) % 10>>, carry |-> (m * D[lo] + cin) \div 10]
    ELSE MulDigitsLeft(D, lo, (lo + hi) \div 2, m,
                       MulDigits(D, (lo + hi) \div 2 + 1, hi, m, cin))

\* The decimal whose digits times tenths are prod, with integer part
\* whole (= tenths * int + carry), divided by ten.
ShiftTenth(whole, prod) ==
    [int |-> whole \div 10, frac |-> <<whole % 10>> \o prod.digits]

\* moving_accuracy *= 0.9.
MovingAccuracyScale(ma, prod) ==
    ShiftTenth(DecayTenths * ma.int + prod.carry, prod)
MovingAccuracyDecay(ma) ==
    MovingAccuracyScale(ma, MulDigits(ma.frac, 1, Len(ma.frac), DecayTenths, 0))

\* Mutant: a hit is credited 1 instead of 0.1.
MovingAccuracyHit_whole(ma) == [ma EXCEPT !.int = @ + 1]

\* moving_accuracy += 0.1 (after the decay there is a first digit).
MovingAccuracyHit(ma) ==
    [int |-> ma.int + (ma.frac[1] + HitTenths) \div 10,
     frac |-> [ma.frac EXCEPT ![1] = (@ + HitTenths) % 10]]
ZeroFloat == [int |-> 0, frac |-> <<>>]

\* `condition == p` for a bool condition and p kept as 2*p.
ConditionEqualsP(condition, p) == 2 * IntOf(condition) = p

\* Mutant: the outcome is logged for every tag that has a log.
RecordStats_log_all(s, tag, condition, p) ==
    LET hit == ConditionEqualsP(condition, p)
        decayed == MovingAccuracyDecay(DictGet(s.moving_accuracy, tag, ZeroFloat))
    IN  [s EXCEPT
            !.moving_accuracy =
                DictSet(@, tag, IF hit THEN MovingAccuracyHit(decayed) ELSE decayed),
            !.taken_history =
                [u \in DOMAIN @ \cup {tag} |->
                    Append(DictGet(@, u, <<>>), IntOf(condition))],
            !.prediction_history =
                DictSet(@, tag, Append(DictGet(@, tag, <<>>), IF p # 0 THEN 1 ELSE 0)),
            !.correct =
                IF hit THEN DictSet(@, tag, DictGet(@, tag, 0) + 1) ELSE @]

\* Lines 160-167: decay, the two logs, and the hit bookkeeping.
RecordStats(s, tag, condition, p) ==
    LET hit == ConditionEqualsP(condition, p)
        decayed == MovingAccuracyDecay(DictGet(s.moving_accuracy, tag, ZeroFloat))
    IN  [s EXCEPT
            !.moving_accuracy =
                DictSet(@, tag, IF hit THEN MovingAccuracyHit(decayed) ELSE decayed),
            !.taken_history =
                DictSet(@, tag, Append(DictGet(@, tag, <<>>), IntOf(condition))),
            !.prediction_history =
                DictSet(@, tag, Append(DictGet(@, tag, <<>>), IF p # 0 THEN 1 ELSE 0)),
            !.correct =
                IF hit THEN DictSet(@, tag, DictGet(@, tag, 0) + 1) ELSE @]

\* What __call__ has done so far: the fields of self, the exception raised
\* ("none" while running), and what the predictor was given and returned.
Progress(s, exc, predicted, X, p) ==
    [s |-> s, exc |-> exc, predicted |-> predicted, X |-> X, p |-> p]

\* predict_and_update, returning r, called self.learning_round() (line 88).
LearningRoundRan(r) == "learning_round" \in DOMAIN r /\ r.learning_round

\* Lines 160-167 after predict_and_update returned r for the features X.
AfterPredict(s, tag, condition, X, r) ==
    Progress(RecordStats([s EXCEPT !.perceptrons[tag].obj = r.self,
                                   !.learning_rounds =
                                       @ + IF LearningRoundRan(r) THEN 1 ELSE 0],
                         tag, condition, r.p),
             "none", TRUE, X, r.p)

\* Line 158 on the table entry's object obj.
PredictStep(s, tag, condition, obj, X, rand_idxs) ==
    IF ChoiceRaises(preceptron, obj)
    THEN Progress(s, "ValueError", FALSE, X, 0)
    ELSE AfterPredict(s, tag, condition, X,
                      predict_and_update(preceptron, obj, X, IntOf(condition),
                                         rand_idxs))

\* Line 158 after the table lookup lk.
AfterLookup(lk, tag, condition, rand_idxs) ==
    IF lk.exc # "none"
    THEN Progress(lk.s, lk.exc, FALSE, <<>>, 0)
    ELSE PredictStep(lk.s, tag, condition, lk.s.perceptrons[tag].obj,
                     FeatureArg(lk.s, condition), rand_idxs)

\* The body of `if tag:` (lines 157-167).
TaggedBlock(s0, condition, tag, fresh, rand_idxs) ==
    AfterLookup(Lookup(CountCall(s0, tag), tag, fresh), tag, condition, rand_idxs)

\* self.update_history(condition): on an empty register the assignment to
\* index 0 raises IndexError.
HistoryStep(t, condition) ==
    IF Len(t.s.global_history) = 0
    THEN [t EXCEPT !.exc = "IndexError"]
    ELSE [t EXCEPT !.s.global_history = update_history(@, condition)]

\* Mutant: the prediction is returned when one was made.
call_return_prediction(condition, predicted, p) ==
    IF predicted THEN p # 0 ELSE condition

\* `return condition`.
call_return(condition, predicted, p) == condition

\* The outcome of __call__: the fields of self afterwards, the exception
\* raised ("none" when it returned) and the value returned.
Outcome(t, condition) ==
    [s |-> t.s, exc |-> t.exc,
     ret |-> IF t.exc = "none" THEN call_return(condition, t.predicted, t.p)
             ELSE FALSE,
     predicted |-> t.predicted, X |-> t.X, p |-> t.p]

\* Lines 169-171 after the tagged block (or without it).
AfterTaggedBlock(t, condition) ==
    IF t.exc = "none" THEN Outcome(HistoryStep(t, condition), condition)
    ELSE Outcome(t, condition)

\* __call__(condition, tag).
BranchPredictor_call(s0, condition, tag, fresh, rand_idxs) ==
    AfterTaggedBlock(
        IF TakesTaggedBranch(tag)
        THEN TaggedBlock(s0, condition, tag, fresh, rand_idxs)
        ELSE Progress(s0, "none", FALSE, <<>>, 0),
        condition)

\* What the default factory and np.random.choice may produce in this call.
FreshChoices(tag) ==
    IF TakesTaggedBranch(tag) /\ tag \notin DOMAIN perceptrons
       /\ CtorAccepts(preceptron, argv)
    THEN NewPerceptrons(preceptron, n, argv)
    ELSE {[net |-> "unused"]}

DrawChoices(tag) ==
    IF /\ TakesTaggedBranch(tag)
       /\ tag \in DOMAIN perceptrons
       /\ preceptron = "BpLambdaPerceptron"
       /\ LearningRoundDue(perceptrons[tag].obj)
       /\ RandIdxs(perceptrons[tag].obj) # {}
    THEN RandIdxs(perceptrons[tag].obj)
    ELSE {{}}

\* No get_accuracies() outcome to show.
NotReported == [called |-> FALSE, exc |-> "none", acc |-> EmptyDict]

NoCall ==
    [condition |-> FALSE, tag |-> NoneTag, exc |-> "none", returned |-> FALSE,
     ret |-> FALSE, predicted |-> FALSE, X |-> <<>>, p |-> 0]

InitOf(lengths, classes, extras) ==
    /\ n \in lengths
    /\ preceptron \in classes
    /\ argv \in extras
    /\ LET self == BranchPredictor_init(n)
       IN  /\ status = self.status
           /\ global_history = self.global_history
           /\ total = self.total
           /\ correct = self.correct
           /\ moving_accuracy = self.moving_accuracy
           /\ taken_history = self.taken_history
           /\ prediction_history = self.prediction_history
           /\ perceptrons = self.perceptrons
    /\ constructed = 0
    /\ learning_rounds = 0
    /\ reported = NotReported
    /\ calls = 0
    /\ observed = <<>>
    /\ last = NoCall

Init == InitOf((-1)..MaxN, Variants, ArgvSet)

\* The state after an invocation with outcome r.
Commit(r, condition, tag) ==
    /\ global_history' = r.s.global_history
    /\ total' = r.s.total
    /\ correct' = r.s.correct
    /\ moving_accuracy' = r.s.moving_accuracy
    /\ taken_history' = r.s.taken_history
    /\ prediction_history' = r.s.prediction_history
    /\ perceptrons' = r.s.perceptrons
    /\ constructed' = r.s.constructed
    /\ learning_rounds' = r.s.learning_rounds
    /\ reported' = NotReported
    /\ observed' = IF r.exc = "none" THEN Append(observed, condition) ELSE observed
    /\ last' = [condition |-> condition, tag |-> tag, exc |-> r.exc,
                returned |-> r.exc = "none", ret |-> r.ret,
                predicted |-> r.predicted, X |-> r.X, p |-> r.p]

\* One invocation bp(condition, tag), the limit-th at most.
CallUpTo(condition, tag, limit) ==
    /\ status = "ready"
    /\ calls < limit
    /\ \E fresh \in FreshChoices(tag), rand_idxs \in DrawChoices(tag) :
        Commit(BranchPredictor_call(Self, condition, tag, fresh, rand_idxs),
               condition, tag)
    /\ calls' = calls + 1
    /\ UNCHANGED <<status, n, preceptron, argv>>

Call(condition, tag) == CallUpTo(condition, tag, MaxCalls)

Next == \E condition \in BOOLEAN, tag \in Tags : Call(condition, tag)

Spec == Init /\ [][Next]_vars

\* `for key in self.perceptrons`: the keys get_accuracies goes through, and
\* those of them it is at before correct[key] / total[key] divides by zero
\* (a dict is gone through in the order the entries were made).
ReportedKeys == DOMAIN perceptrons
ZeroKeys == {k \in ReportedKeys : DictGet(total, k, 0) = 0}
KeysRead ==
    {k \in ReportedKeys : \A z \in ZeroKeys : perceptrons[k].id <= perceptrons[z].id}

\* get_accuracies(): acc[key] is kept as <<correct[key], total[key]>>.
\* Reading a defaultdict creates the missing key.
GetAccuracies ==
    /\ status = "ready"
    /\ reported' =
          IF ZeroKeys = {}
          THEN [called |-> TRUE, exc |-> "none",
                acc |-> [k \in ReportedKeys |-> <<DictGet(correct, k, 0), total[k]>>]]
          ELSE [called |-> TRUE, exc |-> "ZeroDivisionError", acc |-> EmptyDict]
    /\ correct' = [k \in DOMAIN correct \cup KeysRead |-> DictGet(correct, k, 0)]
    /\ total' = [k \in DOMAIN total \cup KeysRead |-> DictGet(total, k, 0)]
    /\ UNCHANGED <<status, n, preceptron, argv, global_history, moving_accuracy,
                   taken_history, prediction_history, perceptrons, constructed,
                   learning_rounds, calls, observed, last>>

\* Invocations of bp with get_accuracies() called in between.
NextAccuracies ==
    \/ Next
    \/ GetAccuracies

SpecAccuracies == Init /\ [][NextAccuracies]_vars

\* One branch site followed for long: a predictor of history length 1, the
\* driver's bp(condition, "a") repeated.
InitOneTag ==
    /\ Init
    /\ n = 1
    /\ argv = <<>>
    /\ preceptron \in {"BpPerceptron", "TruePerceptron"}

CallOneTag(condition) == CallUpTo(condition, <<"str", "a">>, MaxLongCalls)

NextOneTag == \E condition \in BOOLEAN : CallOneTag(condition)

SpecOneTag == InitOneTag /\ [][NextOneTag]_vars

\* The driver's loop site: bp = BranchPredictor(10) with the sign perceptron,
\* bp(i < i_max, "condition") for i = 0, 1, ..., followed for as many calls
\* again after the loop's exit.
HistoryLength == 10
i_max == 1000
LoopTag == <<"str", "condition">>
LoopCalls == 2 * i_max

InitLoop == InitOf({HistoryLength}, {"TruePerceptron"}, {<<>>})

CallLoop == CallUpTo(calls < i_max, LoopTag, LoopCalls)

NextLoop == CallLoop

SpecLoop == InitLoop /\ [][NextLoop]_vars

\* A sign perceptron used on its own: percept = TruePerceptron(n) (or with an
\* eta), then percept.predict_and_update(X, X[0]) for feature vectors X of
\* {0,1}^n without end.  The object is kept in the table under SeparableTag;
\* the predictor's own fields are not touched.
SeparableTag == <<"str", "separable">>
Features == [1..n -> {0, 1}]

InitSeparable ==
    /\ n \in 1..MaxSeparableN
    /\ preceptron = "TruePerceptron"
    /\ argv \in ArgvSet
    /\ status = "ready"
    /\ global_history = Zeros(n)
    /\ total = EmptyDict
    /\ correct = EmptyDict
    /\ moving_accuracy = EmptyDict
    /\ taken_history = EmptyDict
    /\ prediction_history = EmptyDict
    /\ perceptrons = DictSet(EmptyDict, SeparableTag,
                             [id |-> 1, obj |-> TruePerceptron_init(n, argv)])
    /\ constructed = 1
    /\ learning_rounds = 0
    /\ reported = NotReported
    /\ calls = 0
    /\ observed = <<>>
    /\ last = NoCall

\* What one call percept.predict_and_update(X, y) returning r leaves behind.
Fed(X, y, r) ==
    /\ perceptrons' = [perceptrons EXCEPT ![SeparableTag].obj = r.self]
    /\ last' = [NoCall EXCEPT !.condition = (y = 1), !.tag = SeparableTag,
                              !.predicted = TRUE, !.X = X, !.p = r.p]

Feed(X) ==
    /\ Fed(X, X[1], TruePerceptron_predict_and_update(perceptrons[SeparableTag].obj, X, X[1]))
    /\ UNCHANGED <<status, n, preceptron, argv, global_history, total, correct,
                   moving_accuracy, taken_history, prediction_history,
                   constructed, learning_rounds, reported, calls, observed>>

NextSeparable == \E X \in Features : Feed(X)

\* The feeding goes on for ever.
SpecSeparable == InitSeparable /\ [][NextSeparable]_vars /\ WF_vars(NextSeparable)

\* One branch site of a predictor built on BpLambdaPerceptron (lamb given),
\* followed until its buffer of mispredicted examples has filled a batch and
\* the learning round has run; at most MaxAgreed of the invocations are
\* predicted right.
LambdaTag == <<"str", "b">>

InitLambda == InitOf({1}, {"BpLambdaPerceptron"}, {<<2>>})

CallLambda(condition) ==
    /\ CallUpTo(condition, LambdaTag, MaxLambdaCalls)
    /\ DictGet(correct', LambdaTag, 0) <= MaxAgreed

NextLambda == \E condition \in BOOLEAN : CallLambda(condition)

SpecLambda == InitLambda /\ [][NextLambda]_vars

\* ------------------------------------------------------------------- claims
\* The register that pushing the conditions conds (oldest first) into an
\* all-zero register of length len must give: newest first, oldest dropped.
ExpectedHistory(conds, len) ==
    [i \in 1..len |-> IF i <= Len(conds) THEN IntOf(conds[Len(conds) + 1 - i]) ELSE 0]

Tot(t) == DictGet(total, t, 0)
Hit(t) == DictGet(correct, t, 0)
TotNext(t) == DictGet(total', t, 0)

\* A well-formed construction: a register of at least one bit and arguments
\* the perceptron class accepts, so that no invocation raises.
WellConfigured == n >= 1 /\ CtorAccepts(preceptron, argv)

\* C1: an invocation that returns hands back exactly the condition it was
\* given, whatever the tag and whatever the predictor predicted; and a
\* well-configured predictor returns from every invocation.
C1_PassThrough ==
    /\ last.returned => last.ret = last.condition
    /\ (calls > 0 /\ WellConfigured) => last.returned

\* Reached: a tagged invocation returned TRUE although the prediction was 0.
C1_Witness ==
    /\ last.returned /\ last.predicted
    /\ last.condition /\ last.ret /\ last.p = 0

\* C2: the register always has length n and holds the conditions of the
\* invocations so far, newest at index 0, oldest dropped, zeros where fewer
\* than n were pushed: each invocation that returns pushed exactly once.
C2_HistoryInvariant ==
    status = "ready" =>
        /\ Len(global_history) = n
        /\ global_history = ExpectedHistory(observed, n)
        /\ WellConfigured => Len(observed) = calls

\* Reached: more pushes than the register holds, tagged and untagged, with
\* two different bits in it.
C2_Witness ==
    /\ n = 2 /\ Len(observed) > n
    /\ global_history = <<0, 1>>
    /\ \E t \in Tags : Tot(t) > 0 /\ Tot(t) < calls

\* C3: the feature vector a tagged invocation hands to the predictor is the
\* register of the earlier invocations only; the invocation's own condition
\* is in the register only afterwards.
C3_PredictBeforePush ==
    [][last'.predicted =>
        /\ last'.X = ExpectedHistory(observed, n)
        /\ last'.X = global_history
        /\ last'.returned =>
              global_history' = ExpectedHistory(Append(observed, last'.condition), n)
      ]_vars

\* Reached: the predictor saw a newest bit 0 while the condition was TRUE,
\* which is in the register after the invocation.
C3_Witness ==
    /\ last.predicted /\ last.returned /\ last.condition
    /\ n >= 1 /\ calls >= 2
    /\ last.X[1] = 0 /\ global_history[1] = 1

C5_AnyTagPredicts ==
    [][(last'.tag # NoneTag /\ last'.returned) =>
        /\ last'.predicted
        /\ last'.tag \in DOMAIN perceptrons'
        /\ TotNext(last'.tag) = Tot(last'.tag) + 1
      ]_vars

\* C6: an invocation without a tag leaves the statistics, the logs and the
\* table of perceptrons as they were; only the register changes.
C6_UntaggedFrame ==
    [][last'.tag = NoneTag =>
        /\ UNCHANGED <<total, correct, moving_accuracy, taken_history,
                       prediction_history, perceptrons, constructed>>
        /\ ~last'.predicted
        /\ n >= 1 => global_history' = update_history(global_history, last'.condition)
      ]_vars

\* Reached: an untagged invocation changed the register of a predictor that
\* has statistics and a perceptron.
C6_Witness ==
    /\ last.tag = NoneTag /\ last.returned /\ last.condition
    /\ n = 2 /\ global_history = <<1, 0>>
    /\ DOMAIN perceptrons # {} /\ DOMAIN total # {}

C8_MovingAccuracyBounded ==
    \A t \in DOMAIN moving_accuracy :
        /\ moving_accuracy[t].int >= 0
        /\ \A i \in 1..Len(moving_accuracy[t].frac) : moving_accuracy[t].frac[i] \in 0..9
        /\ \/ moving_accuracy[t].int = 0
           \/ /\ moving_accuracy[t].int = 1
              /\ \A i \in 1..Len(moving_accuracy[t].frac) : moving_accuracy[t].frac[i] = 0

\* Reached: seven hits in a row after a miss, a value above 0.52.
C8_Witness ==
    \E t \in DOMAIN moving_accuracy :
        /\ Tot(t) >= 8 /\ Hit(t) = Tot(t) - 1
        /\ moving_accuracy[t].frac[1] = 5 /\ moving_accuracy[t].frac[2] >= 2

\* C9 (as claimed): constructing with n <= 0 fails, so no predictor with
\* n <= 0 is ever ready or invoked.
C9_NonPositiveNRejected ==
    n <= 0 => (status = "ctor_failed" /\ calls = 0)

\* C10 (as claimed): an invocation that raises leaves the register, the
\* statistics, the logs and the table as they were before it.
C10_AtomicOnError ==
    [][last'.exc # "none" =>
        UNCHANGED <<global_history, total, correct, moving_accuracy,
                    taken_history, prediction_history, perceptrons>>
      ]_vars
\* C11: on the loop site (history length 10, sign perceptron, one tag, the
\* condition of step s being s < 1000, 2000 calls) the final ratio of hits
\* to calls is above 0.95, and each of the steps 990..999 is predicted taken.
C11_LoopLearned ==
    /\ calls \in (i_max - 9)..i_max =>
           /\ last.p = 2
           /\ prediction_history[LoopTag][calls] = 1
    /\ calls = LoopCalls =>
           /\ Tot(LoopTag) = LoopCalls
           /\ 100 * Hit(LoopTag) > 95 * Tot(LoopTag)
           /\ \A s \in (i_max - 10)..(i_max - 1) : prediction_history[LoopTag][s + 1] = 1

C11_Witness ==
    /\ calls = LoopCalls
    /\ Len(taken_history[LoopTag]) = LoopCalls
    /\ taken_history[LoopTag][i_max] = 1
    /\ taken_history[LoopTag][i_max + 1] = 0

\* C12 (as claimed): the value TruePerceptron.predict_and_update returns is
\* exactly 0 or exactly 1, whatever the weights, the features and the label.
C12_BinaryDecision ==
    (preceptron = "TruePerceptron" /\ last.predicted) => last.p \in {0, 2}

\* The weights tag's sign perceptron holds before an invocation (a new one
\* holds zeros), its learning rate, and the score it computes for X.
WeightsBefore(tag) ==
    IF tag \in DOMAIN perceptrons THEN perceptrons[tag].obj.weights
    ELSE [i \in 1..(n + 1) |-> 0]
EtaGiven == IF Len(argv) >= 1 THEN argv[1] ELSE 1
Scaled(X) == [i \in 1..Len(X) |-> 2 * X[i] - 1]
Score(w, x_s) == Dot(SubSeq(w, 1, Len(x_s)), x_s) + w[Len(x_s) + 1]

\* The perceptron rule: w + eta * y_s * x_s and b + eta * y_s.
RuleApplied(w, eta, x_s, y_s) ==
    [i \in 1..Len(w) |->
        w[i] + eta * y_s * (IF i <= Len(x_s) THEN x_s[i] ELSE 1)]

\* C13: a call of TruePerceptron.predict_and_update leaves weights and bias
\* as they were when the sign of the score equals the scaled label, and
\* otherwise sets them to exactly w + eta*y_s*x_s and b + eta*y_s; n and eta
\* stay as they were.
C13_UpdateOnlyOnMisprediction ==
    [][(preceptron = "TruePerceptron" /\ last'.predicted) =>
        /\ perceptrons'[last'.tag].obj.n = n
        /\ perceptrons'[last'.tag].obj.eta = EtaGiven
        /\ perceptrons'[last'.tag].obj.weights =
              IF Sign(Score(WeightsBefore(last'.tag), Scaled(last'.X)))
                    = 2 * IntOf(last'.condition) - 1
              THEN WeightsBefore(last'.tag)
              ELSE RuleApplied(WeightsBefore(last'.tag), EtaGiven,
                               Scaled(last'.X), 2 * IntOf(last'.condition) - 1)
      ]_vars

\* Reached: a call whose sign was right and changed nothing, on weights an
\* earlier misprediction had moved by the rule with eta = 2.
C13_Witness ==
    /\ preceptron = "TruePerceptron" /\ n = 2 /\ argv = <<2>>
    /\ last.predicted /\ last.returned
    /\ last.p = 2 * IntOf(last.condition)
    /\ Tot(last.tag) >= 2
    /\ \E i \in 1..(n + 1) : perceptrons[last.tag].obj.weights[i] # 0

\* C14: a sign perceptron fed feature vectors of {0,1}^n without end, each
\* labelled with its own first feature, changes its weights finitely often:
\* from some call on the sign predicted is always the scaled label (and the
\* value returned the label).  At most n + 1 calls ever change the weights;
\* each adds eta to the first weight.
C14_Converges ==
    /\ <>[](last.predicted /\ last.p = 2 * IntOf(last.condition))
    /\ [](perceptrons[SeparableTag].obj.weights[1] <= EtaGiven * (n + 1))

\* Reached with n = 2: the weights settled after two updates, and a call
\* predicted right on them.
C14_Witness ==
    /\ n = 2 /\ argv = <<>>
    /\ perceptrons[SeparableTag].obj.weights = <<2, 0, 0>>
    /\ last.predicted /\ last.p = 2 * IntOf(last.condition)
    /\ last.X = <<0, 1>>

\* Every invocation logged for tag was mispredicted.
AllMispredicted(tag) ==
    /\ tag \in DOMAIN prediction_history
    /\ \A i \in 1..Len(prediction_history[tag]) :
           prediction_history[tag][i] # taken_history[tag][i]

\* C15: on a new BpLambdaPerceptron (bs = 16, empty buffer) whose calls are
\* all mispredicted, no learning round has run while at most 16 calls are
\* done, and exactly one has run when the 17th call is done.
C15_RoundAtSeventeenthCall ==
    (calls >= 1 /\ AllMispredicted(LambdaTag)) =>
        /\ Len(prediction_history[LambdaTag]) = calls
        /\ calls <= bs => learning_rounds = 0
        /\ calls = bs + 1 => learning_rounds = 1

\* Reached: seventeen calls, all mispredicted and stored, one round run.
C15_Witness ==
    /\ calls = bs + 1
    /\ AllMispredicted(LambdaTag)
    /\ Len(perceptrons[LambdaTag].obj.example_history_x) = bs + 1
    /\ learning_rounds = 1

\* The examples tag's BpLambdaPerceptron has stored.
Buffer(tag) == perceptrons[tag].obj.example_history_x

\* C16: a learning round is only ever started on a buffer of at least bs
\* examples: every call that runs one found that many stored, and no call
\* ends in the ValueError np.random.choice raises on a smaller buffer.
C16_RoundHasBatch ==
    /\ [][learning_rounds' # learning_rounds =>
            /\ last'.tag \in DOMAIN perceptrons
            /\ Len(Buffer(last'.tag)) >= bs
            /\ learning_rounds' = learning_rounds + 1
         ]_vars
    /\ [](last.exc # "ValueError")

\* Reached: a round run by the eighteenth call, one earlier call having
\* been predicted right and so not stored.
C16_Witness ==
    /\ calls = bs + 2 /\ learning_rounds = 1
    /\ Hit(LambdaTag) = 1
    /\ last.exc = "none"
    /\ Len(Buffer(LambdaTag)) = bs + 1

\* The examples and labels tag's BpLambdaPerceptron holds before an
\* invocation (a new one holds none), and the labels it holds after.
BufferBefore(tag) == IF tag \in DOMAIN perceptrons THEN Buffer(tag) ELSE <<>>
Labels(tag) == perceptrons[tag].obj.example_history_y
LabelsBefore(tag) == IF tag \in DOMAIN perceptrons THEN Labels(tag) ELSE <<>>

\* C17: a call of BpLambdaPerceptron.predict_and_update appends exactly the
\* pair (X, y) to the buffer when the decision it returns differs from y and
\* leaves the buffer as it was when the decision agrees; so the buffer never
\* shrinks, holds only examples mispredicted when stored, and its two lists
\* have the same length.
C17_BufferErrorDriven ==
    /\ [][last'.predicted =>
            IF last'.p # 2 * IntOf(last'.condition)
            THEN /\ perceptrons'[last'.tag].obj.example_history_x =
                        Append(BufferBefore(last'.tag), last'.X)
                 /\ perceptrons'[last'.tag].obj.example_history_y =
                        Append(LabelsBefore(last'.tag), IntOf(last'.condition))
            ELSE /\ perceptrons'[last'.tag].obj.example_history_x =
                        BufferBefore(last'.tag)
                 /\ perceptrons'[last'.tag].obj.example_history_y =
                        LabelsBefore(last'.tag)
         ]_vars
    /\ [](\A t \in DOMAIN perceptrons :
            /\ Len(Buffer(t)) = Len(Labels(t))
            /\ Len(Buffer(t)) = Tot(t) - Hit(t))

\* Reached: a call predicted right that stored nothing, on a buffer earlier
\* mispredictions had filled.
C17_Witness ==
    /\ last.predicted /\ last.tag = LambdaTag
    /\ last.p = 2 * IntOf(last.condition)
    /\ Len(Buffer(LambdaTag)) >= 2
    /\ Len(Buffer(LambdaTag)) = calls - 1
    /\ Labels(LambdaTag)[1] # Labels(LambdaTag)[2]

\* The dictionaries d and e have the same entry, or both none, for key k.
SameAt(d, e, k) ==
    /\ k \in DOMAIN d <=> k \in DOMAIN e
    /\ k \in DOMAIN d => d[k] = e[k]

\* C18: an invocation for one tag leaves every other tag's perceptron (its
\* parameters and all its state), total, correct, moving_accuracy and both
\* logs exactly as they were.
C18_OtherTagsUntouched ==
    [][\A u \in Tags : u # last'.tag =>
            /\ SameAt(perceptrons', perceptrons, u)
            /\ SameAt(total', total, u)
            /\ SameAt(correct', correct, u)
            /\ SameAt(moving_accuracy', moving_accuracy, u)
            /\ SameAt(taken_history', taken_history, u)
            /\ SameAt(prediction_history', prediction_history, u)
      ]_vars

\* Reached: a tag's perceptron trained by two invocations, then a predicting
\* invocation for another tag.
C18_Witness ==
    \E u \in Tags :
        /\ u # last.tag /\ last.predicted /\ last.returned
        /\ Tot(u) = 2 /\ Hit(u) = 1
        /\ Tot(last.tag) >= 1
        /\ Len(taken_history[u]) = 2

\* The positions at which tag's two logs hold the same bit.
AgreeingPositions(tag) ==
    {i \in 1..Len(prediction_history[tag]) :
        prediction_history[tag][i] = taken_history[tag][i]}

\* C19 (as claimed): for every tag, correct[tag] is the number of positions
\* at which prediction_history[tag] and taken_history[tag] hold the same
\* bit, whichever perceptron class is used.
C19_HitsMatchLogs ==
    \A t \in DOMAIN prediction_history :
        /\ t \in DOMAIN taken_history
        /\ Len(taken_history[t]) = Len(prediction_history[t])
        /\ Hit(t) = Cardinality(AgreeingPositions(t))

====
